---- MODULE Spec2Model ----
(***************************************************************************)
(* The agent registry program (programs/agent-registry/src/lib.rs): two    *)
(* instructions, register_agent and record_reputation, over AgentState     *)
(* accounts.  An instruction is one atomic step: its account constraints   *)
(* (#[derive(Accounts)]) are checked first, then its handler runs, and a   *)
(* failing instruction leaves every account as it was.                     *)
(***************************************************************************)
EXTENDS Integers, Naturals, Sequences, FiniteSets, TLC

(***************************************************************************)
(* Bounds of the model.                                                    *)
(***************************************************************************)
NumKeys == 2          \* public keys that can sign
MaxCommitted == 2     \* successful record_reputation calls in a behaviour

(***************************************************************************)
(* i64.  TLC's integers are 32 bits wide, so a 64-bit two's complement     *)
(* value is kept as three limbs, value = (hi * Limb + mid) * Limb + lo,    *)
(* with hi signed in -Limb .. Limb-1 (22 bits) and mid, lo in 0 .. Limb-1  *)
(* (21 bits each).                                                         *)
(***************************************************************************)
Limb == 2^21

I64(h, m, l) == [hi |-> h, mid |-> m, lo |-> l]

I64_MAX == I64(Limb - 1, Limb - 1, Limb - 1)

I64_MIN == I64(-Limb, 0, 0)

\* The i64 of an integer small enough for TLC (|n| < 2^31).
FromInt(n) == I64((n \div Limb) \div Limb, (n \div Limb) % Limb, n % Limb)

\* The integer of an i64 that is small enough for TLC.
Val(x) == (x.hi * Limb + x.mid) * Limb + x.lo

I64Lt(a, b) ==
    \/ a.hi < b.hi
    \/ a.hi = b.hi /\ a.mid < b.mid
    \/ a.hi = b.hi /\ a.mid = b.mid /\ a.lo < b.lo

I64Le(a, b) == a = b \/ I64Lt(a, b)

\* The limbs of a + b before the top limb is reduced to 22 bits.
RawSum(a, b) ==
    LET l == a.lo + b.lo
        m == a.mid + b.mid + (l \div Limb)
        h == a.hi + b.hi + (m \div Limb)
    IN  I64(h, m % Limb, l % Limb)

\* a + b does not fit in an i64.
AddOverflows(a, b) == RawSum(a, b).hi \notin (-Limb) .. (Limb - 1)

\* a + b modulo 2^64, as two's complement.
WrappingAdd(a, b) ==
    LET r == RawSum(a, b)
    IN  I64(((r.hi + Limb) % (2 * Limb)) - Limb, r.mid, r.lo)

\* Ord::clamp
Clamp(x, min, max) ==
    IF I64Lt(x, min) THEN min ELSE IF I64Lt(max, x) THEN max ELSE x

MIN_SCORE == 0

MAX_SCORE == 10000

(***************************************************************************)
(* The values of the model.                                                *)
(***************************************************************************)
\* Pubkey::default(), the all-zero key of a freshly allocated account.
ZeroKey == 0

Keys == 1 .. NumKeys

\* Addresses an agent account can live at.
Slots == {"agentA", "agentB"}

\* capabilities_uri and disclosure: the all-zero metadata and one other.
AgentMetadata ==
    {[capabilities_uri |-> 0, disclosure |-> 0],
     [capabilities_uri |-> 1, disclosure |-> 1]}

ZeroMetadata == [capabilities_uri |-> 0, disclosure |-> 0]

\* score_change values: both ends of i64, zero, and deltas that move the
\* score inside [0, 10000] and across its ends.
ScoreChanges == {I64_MIN, FromInt(-100), FromInt(0), FromInt(9999), I64_MAX}

\* reference: the all-zero hash and one other.
ReputationDelta == [score_change : ScoreChanges, reference : {0, 1}]

ZeroDelta == [score_change |-> FromInt(0), reference |-> 0]

\* A slot that holds no account.
NoAgent == [exists |-> FALSE]

\* #[derive(Default)] AgentState: the content of a zeroed account.
AgentState ==
    [exists |-> TRUE, authority |-> ZeroKey, metadata |-> ZeroMetadata,
     reputation_score |-> FromInt(0), last_event |-> ZeroDelta]

NoCall ==
    [op |-> "none", slot |-> "none", caller |-> ZeroKey, signed |-> FALSE,
     result |-> "none"]

NoRegistration == [caller |-> ZeroKey, metadata |-> ZeroMetadata]

VARIABLES
    agents,           \* slot -> the AgentState account at it, or NoAgent
    overflow_checks,  \* the build: TRUE panics on i64 overflow, FALSE wraps
    call,             \* the last instruction processed and its result
    registration,     \* history: slot -> the inputs of the register_agent that created it
    committed         \* history: slot -> the deltas of its successful record_reputation calls

vars == <<agents, overflow_checks, call, registration, committed>>

Init ==
    /\ agents = [s \in Slots |-> NoAgent]
    /\ overflow_checks \in BOOLEAN
    /\ call = NoCall
    /\ registration = [s \in Slots |-> NoRegistration]
    /\ committed = [s \in Slots |-> <<>>]

(***************************************************************************)
(* register_agent                                                          *)
(***************************************************************************)
\* Mutant: `init_if_needed` in place of `init`, which takes an address
\* already in use.
RegisterAgentErrorIfNeeded(slot, signed, funded) ==
    IF ~signed THEN "Unauthorized"
    ELSE IF ~funded /\ ~agents[slot].exists THEN "AllocationFailed"
    ELSE "Ok"

\* The constraints of RegisterAgent: authority is a Signer; agent is
\* created by `init`, which fails on an address already in use and when the
\* payer cannot fund the allocation.
RegisterAgentError(slot, signed, funded) ==
    IF ~signed THEN "Unauthorized"
    ELSE IF agents[slot].exists THEN "AlreadyExists"
    ELSE IF ~funded THEN "AllocationFailed"
    ELSE "Ok"

\* Mutant: the handler without `agent.metadata = metadata`.
RegisteredAgentNoMetadata(caller, metadata) ==
    [AgentState EXCEPT !.authority = caller]

\* The handler's writes to the new (zeroed) account.
RegisteredAgent(caller, metadata) ==
    [AgentState EXCEPT !.authority = caller, !.metadata = metadata]

RegisterAgent(slot, caller, signed, funded, metadata) ==
    LET err == RegisterAgentError(slot, signed, funded)
    IN  /\ call' = [op |-> "register_agent", slot |-> slot, caller |-> caller,
                    signed |-> signed, result |-> err]
        /\ IF err = "Ok"
           THEN /\ agents' = [agents EXCEPT ![slot] = RegisteredAgent(caller, metadata)]
                /\ registration' =
                     [registration EXCEPT
                        ![slot] = IF @ = NoRegistration
                                  THEN [caller |-> caller, metadata |-> metadata]
                                  ELSE @]
           ELSE UNCHANGED <<agents, registration>>
        /\ UNCHANGED <<overflow_checks, committed>>

(***************************************************************************)
(* record_reputation                                                       *)
(***************************************************************************)
\* Mutant: the constraints without has_one = authority.
RecordReputationErrorNoHasOne(slot, caller, signed) ==
    IF ~agents[slot].exists THEN "NotFound"
    ELSE IF ~signed THEN "Unauthorized"
    ELSE "Ok"

\* Mutant: authority declared before agent, so the Signer check runs before
\* the agent account is loaded.
RecordReputationErrorSignerFirst(slot, caller, signed) ==
    IF ~signed THEN "Unauthorized"
    ELSE IF ~agents[slot].exists THEN "NotFound"
    ELSE IF agents[slot].authority # caller THEN "Unauthorized"
    ELSE "Ok"

\* Mutant: authority taken as a plain account, not a Signer.
RecordReputationErrorNoSigner(slot, caller, signed) ==
    IF ~agents[slot].exists THEN "NotFound"
    ELSE IF agents[slot].authority # caller THEN "Unauthorized"
    ELSE "Ok"

\* The constraints of RecordReputation: agent is an existing AgentState
\* account, authority is a Signer, and has_one = authority.
RecordReputationError(slot, caller, signed) ==
    IF ~agents[slot].exists THEN "NotFound"
    ELSE IF ~signed THEN "Unauthorized"
    ELSE IF agents[slot].authority # caller THEN "Unauthorized"
    ELSE "Ok"

\* agent.reputation_score + delta.score_change panics in a build with
\* overflow checks.
Panics(score, score_change) == overflow_checks /\ AddOverflows(score, score_change)

\* Mutant: the sum stored without the clamp.
NewScoreUnclamped(score, score_change) == WrappingAdd(score, score_change)

\* Mutant: the clamp with a ceiling of 100.
NewScoreLowCeiling(score, score_change) ==
    Clamp(WrappingAdd(score, score_change), FromInt(MIN_SCORE), FromInt(100))

\* (agent.reputation_score + delta.score_change).clamp(0, 10_000)
NewScore(score, score_change) ==
    Clamp(WrappingAdd(score, score_change), FromInt(MIN_SCORE), FromInt(MAX_SCORE))

\* Mutant: last_event written only when the score moved.
NewLastEventIfMoved(agent, delta) ==
    IF NewScore(agent.reputation_score, delta.score_change) = agent.reputation_score
    THEN agent.last_event
    ELSE delta

\* agent.last_event = delta
NewLastEvent(agent, delta) == delta

\* Mutant: a lost update, the new score computed from the score of a fresh
\* record instead of the score the record holds.
RecordedAgentStale(agent, delta) ==
    [agent EXCEPT !.reputation_score = NewScore(FromInt(0), delta.score_change),
                  !.last_event = NewLastEvent(agent, delta)]

\* Mutant: the handler stores a rebuilt AgentState that carries the
\* authority over and leaves the metadata at its default.
RecordedAgentRebuilt(agent, delta) ==
    [AgentState EXCEPT !.authority = agent.authority,
                       !.reputation_score =
                          NewScore(agent.reputation_score, delta.score_change),
                       !.last_event = NewLastEvent(agent, delta)]

\* The handler's writes to the agent account.
RecordedAgent(agent, delta) ==
    [agent EXCEPT !.reputation_score = NewScore(@, delta.score_change),
                  !.last_event = NewLastEvent(agent, delta)]

TotalCommitted == Len(committed["agentA"]) + Len(committed["agentB"])

\* Mutant: last_event is written before the sum is formed and the write
\* survives the panic.
RecordReputationPartial(slot, caller, signed, delta) ==
    LET err == RecordReputationError(slot, caller, signed)
        res == IF err # "Ok" THEN err
               ELSE IF Panics(agents[slot].reputation_score, delta.score_change)
                    THEN "ArithmeticOverflow"
               ELSE "Ok"
    IN  /\ res = "Ok" => TotalCommitted < MaxCommitted
        /\ call' = [op |-> "record_reputation", slot |-> slot, caller |-> caller,
                    signed |-> signed, result |-> res]
        /\ IF res = "Ok"
           THEN /\ agents' = [agents EXCEPT ![slot] = RecordedAgent(@, delta)]
                /\ committed' = [committed EXCEPT ![slot] = Append(@, delta)]
           ELSE /\ agents' = IF res = "ArithmeticOverflow"
                             THEN [agents EXCEPT ![slot].last_event = delta]
                             ELSE agents
                /\ UNCHANGED committed
        /\ UNCHANGED <<overflow_checks, registration>>

\* Mutant: the delta is applied to every record of the caller, not only to
\* the account passed as `agent`.
RecordReputationAllOfAuthority(slot, caller, signed, delta) ==
    LET err == RecordReputationError(slot, caller, signed)
        res == IF err # "Ok" THEN err
               ELSE IF Panics(agents[slot].reputation_score, delta.score_change)
                    THEN "ArithmeticOverflow"
               ELSE "Ok"
    IN  /\ res = "Ok" => TotalCommitted < MaxCommitted
        /\ call' = [op |-> "record_reputation", slot |-> slot, caller |-> caller,
                    signed |-> signed, result |-> res]
        /\ IF res = "Ok"
           THEN /\ agents' = [s \in Slots |->
                                IF agents[s].exists /\ agents[s].authority = caller
                                THEN RecordedAgent(agents[s], delta)
                                ELSE agents[s]]
                /\ committed' = [committed EXCEPT ![slot] = Append(@, delta)]
           ELSE UNCHANGED <<agents, committed>>
        /\ UNCHANGED <<overflow_checks, registration>>

RecordReputation(slot, caller, signed, delta) ==
    LET err == RecordReputationError(slot, caller, signed)
        res == IF err # "Ok" THEN err
               ELSE IF Panics(agents[slot].reputation_score, delta.score_change)
                    THEN "ArithmeticOverflow"
               ELSE "Ok"
    IN  /\ res = "Ok" => TotalCommitted < MaxCommitted
        /\ call' = [op |-> "record_reputation", slot |-> slot, caller |-> caller,
                    signed |-> signed, result |-> res]
        /\ IF res = "Ok"
           THEN /\ agents' = [agents EXCEPT ![slot] = RecordedAgent(@, delta)]
                /\ committed' = [committed EXCEPT ![slot] = Append(@, delta)]
           ELSE UNCHANGED <<agents, committed>>
        /\ UNCHANGED <<overflow_checks, registration>>

(***************************************************************************)
(* The registry: both slots, with two of the deltas.                        *)
(***************************************************************************)
RegistryDeltas ==
    {d \in ReputationDelta :
        d.score_change \in {FromInt(-100), FromInt(9999)} /\ d.reference = 1}

Next ==
    \/ \E slot \in Slots, caller \in Keys, signed \in BOOLEAN, funded \in BOOLEAN,
          metadata \in AgentMetadata :
            RegisterAgent(slot, caller, signed, funded, metadata)
    \/ \E slot \in Slots, caller \in Keys, signed \in BOOLEAN,
          delta \in RegistryDeltas :
            RecordReputation(slot, caller, signed, delta)

Spec == Init /\ [][Next]_vars

(***************************************************************************)
(* One agent account, with every delta.                                    *)
(***************************************************************************)
NextAgent ==
    \/ \E caller \in Keys, signed \in BOOLEAN, funded \in BOOLEAN,
          metadata \in AgentMetadata :
            RegisterAgent("agentA", caller, signed, funded, metadata)
    \/ \E caller \in Keys, signed \in BOOLEAN, delta \in ReputationDelta :
            RecordReputation("agentA", caller, signed, delta)

SpecAgent == Init /\ [][NextAgent]_vars

(***************************************************************************)
(* One agent account, with the deltas of a ledger that stays inside the    *)
(* score range: +300 with reference R1, -50 with reference R2, and +5000.  *)
(***************************************************************************)
Delta1 == [score_change |-> FromInt(300), reference |-> 1]

Delta2 == [score_change |-> FromInt(-50), reference |-> 0]

Delta3 == [score_change |-> FromInt(5000), reference |-> 1]

LedgerDeltas == {Delta1, Delta2, Delta3}

NextLedger ==
    \/ \E caller \in Keys, signed \in BOOLEAN, funded \in BOOLEAN,
          metadata \in AgentMetadata :
            RegisterAgent("agentA", caller, signed, funded, metadata)
    \/ \E caller \in Keys, signed \in BOOLEAN, delta \in LedgerDeltas :
            RecordReputation("agentA", caller, signed, delta)

SpecLedger == Init /\ [][NextLedger]_vars

(***************************************************************************)
(* Properties.                                                             *)
(***************************************************************************)
InBounds(score) ==
    I64Le(FromInt(MIN_SCORE), score) /\ I64Le(score, FromInt(MAX_SCORE))

\* clamp(s + d, 0, 10000) of the integer sum s + d, for a score s within
\* [0, 10000] and any i64 d, computed without forming a sum outside i64.
ClampedSum(s, d) ==
    IF I64Le(FromInt(MAX_SCORE - Val(s)), d) THEN FromInt(MAX_SCORE)
    ELSE IF I64Le(d, FromInt(MIN_SCORE - Val(s))) THEN FromInt(MIN_SCORE)
    ELSE FromInt(Val(s) + Val(d))

\* The step is a record_reputation call that succeeded.
Recorded == call'.op = "record_reputation" /\ call'.result = "Ok"

\* The delta passed to the successful call of the step.
RecordedDelta == committed'[call'.slot][Len(committed'[call'.slot])]

LastCommitted(slot) == committed[slot][Len(committed[slot])]

\* C1: every existing agent record has 0 <= reputation_score <= 10000, in
\* every reachable state, whatever i64 deltas were submitted.
C1_BoundsInvariant ==
    \A slot \in Slots : agents[slot].exists => InBounds(agents[slot].reputation_score)

\* C1 witness: a record that took i64::MAX and then i64::MIN.
C1_Witness ==
    /\ agents["agentA"].exists
    /\ Len(committed["agentA"]) = 2
    /\ committed["agentA"][1].score_change = I64_MAX
    /\ committed["agentA"][2].score_change = I64_MIN

\* C2: a record_reputation call on an existing agent by a caller other than
\* the stored authority fails with Unauthorized and leaves the record
\* (authority, metadata, reputation_score, last_event) as it was.
C2_UnauthorizedLeavesRecord ==
    [][(/\ call'.op = "record_reputation"
        /\ agents[call'.slot].exists
        /\ agents[call'.slot].authority # call'.caller)
       => (/\ call'.result = "Unauthorized"
           /\ agents'[call'.slot] = agents[call'.slot])]_vars

\* C2 witness: a signed call by another key was rejected on a record that
\* holds a score.
C2_Witness ==
    /\ call.op = "record_reputation"
    /\ call.signed
    /\ call.result = "Unauthorized"
    /\ agents[call.slot].exists
    /\ agents[call.slot].authority # call.caller
    /\ agents[call.slot].reputation_score = FromInt(9999)

\* C3: every successful record_reputation call leaves reputation_score equal
\* to clamp(s + d, 0, 10000) of the integer sum of the old score s and the
\* score_change d.
C3_SaturatingUpdate ==
    [][Recorded =>
         agents'[call'.slot].reputation_score =
           ClampedSum(agents[call'.slot].reputation_score, RecordedDelta.score_change)]_vars

\* C4: a record_reputation call signed by the record's authority is never
\* rejected, whatever i64 score_change it carries, and its sum does not wrap
\* before the clamp.
C4_NeverRejectedNeverWraps ==
    [][(/\ call'.op = "record_reputation"
        /\ agents[call'.slot].exists
        /\ call'.signed
        /\ agents[call'.slot].authority = call'.caller)
       => (/\ call'.result = "Ok"
           /\ agents'[call'.slot].reputation_score =
                ClampedSum(agents[call'.slot].reputation_score,
                           RecordedDelta.score_change))]_vars

\* C5: after a successful record_reputation call the record's last_event is
\* exactly the delta passed to that call, also when the score did not move.
C5_LastEventIsDelta ==
    (call.op = "record_reputation" /\ call.result = "Ok")
    => agents[call.slot].last_event = LastCommitted(call.slot)

\* C5 witness: a second delta, other than the first, applied at the floor
\* without moving the score.
C5_Witness ==
    /\ call.op = "record_reputation"
    /\ call.result = "Ok"
    /\ Len(committed[call.slot]) = 2
    /\ committed[call.slot][1] # committed[call.slot][2]
    /\ committed[call.slot][1].score_change = FromInt(0)
    /\ committed[call.slot][2].score_change = FromInt(-100)
    /\ agents[call.slot].reputation_score = FromInt(0)

\* C6: a successful register_agent call by caller C with metadata M creates,
\* at a slot that held no record, the record (authority C, metadata M,
\* reputation_score 0, last_event the zero delta), and changes no other slot.
C6_RegistrationEffect ==
    [][(call'.op = "register_agent" /\ call'.result = "Ok")
       => (/\ ~agents[call'.slot].exists
           /\ agents'[call'.slot] =
                [exists |-> TRUE,
                 authority |-> call'.caller,
                 metadata |-> registration'[call'.slot].metadata,
                 reputation_score |-> FromInt(0),
                 last_event |-> [score_change |-> FromInt(0), reference |-> 0]]
           /\ \A other \in Slots \ {call'.slot} : agents'[other] = agents[other])]_vars

\* C6 witness: a record created with non-zero metadata next to a record that
\* holds a score.
C6_Witness ==
    /\ call.op = "register_agent"
    /\ call.result = "Ok"
    /\ agents[call.slot].metadata = [capabilities_uri |-> 1, disclosure |-> 1]
    /\ \E other \in Slots \ {call.slot} :
          agents[other].exists /\ agents[other].reputation_score = FromInt(9999)

\* C7: a register_agent call by any verified caller at a slot that holds a
\* record fails with AlreadyExists and leaves every record as it was.
C7_DuplicateRegistration ==
    [][(/\ call'.op = "register_agent"
        /\ call'.signed
        /\ agents[call'.slot].exists)
       => (call'.result = "AlreadyExists" /\ agents' = agents)]_vars

\* C7 witness: the record's own authority re-registered at its slot, which
\* holds an accumulated score, and was refused.
C7_Witness ==
    /\ call.op = "register_agent"
    /\ call.result = "AlreadyExists"
    /\ agents[call.slot].authority = call.caller
    /\ agents[call.slot].reputation_score = FromInt(9899)

\* C8: the authority of every record is, in every reachable state, the
\* verified identity of the caller whose register_agent created it.
C8_AuthorityImmutable ==
    \A slot \in Slots :
        agents[slot].exists => agents[slot].authority = registration[slot].caller

\* C8 witness: another key tried to register over a record that has taken a
\* delta, and the authority is still the creator.
C8_Witness ==
    /\ call.op = "register_agent"
    /\ call.signed
    /\ agents[call.slot].exists
    /\ committed[call.slot] # <<>>
    /\ call.caller # registration[call.slot].caller
    /\ agents[call.slot].authority = registration[call.slot].caller

\* C9: no public key is the authority of two distinct agent records.
C9_OneAgentPerAuthority ==
    \A s1, s2 \in Slots :
        (/\ agents[s1].exists
         /\ agents[s2].exists
         /\ agents[s1].authority = agents[s2].authority)
        => s1 = s2

\* The score of a fresh record after the deltas of seq, applied one at a
\* time in order.
RECURSIVE ScoreAfter(_)
ScoreAfter(seq) ==
    IF seq = <<>> THEN FromInt(0)
    ELSE NewScore(ScoreAfter(SubSeq(seq, 1, Len(seq) - 1)),
                  seq[Len(seq)].score_change)

C11_NoPartialMutation ==
    [][/\ (call'.result # "Ok" => agents' = agents)
       /\ (Recorded =>
             /\ agents'[call'.slot].last_event = RecordedDelta
             /\ agents'[call'.slot].reputation_score =
                  NewScore(agents[call'.slot].reputation_score,
                           RecordedDelta.score_change))]_vars

\* C11 witness: a call by the authority aborted on the i64 overflow and the
\* record still holds the score and last_event of the call before it.
C11_Witness ==
    /\ call.op = "record_reputation"
    /\ call.result = "ArithmeticOverflow"
    /\ agents[call.slot].reputation_score = FromInt(9999)
    /\ agents[call.slot].last_event = [score_change |-> FromInt(9999), reference |-> 1]

\* The record that one slot's own history determines: the inputs reg of its
\* register_agent and the deltas seq of its successful record_reputation calls.
RecordOf(reg, seq) ==
    [exists |-> TRUE,
     authority |-> reg.caller,
     metadata |-> reg.metadata,
     reputation_score |-> ScoreAfter(seq),
     last_event |-> IF seq = <<>> THEN ZeroDelta ELSE seq[Len(seq)]]

\* C12: a call leaves the record of every slot other than its target as it
\* was, and register_agent leaves every existing record as it was; so each
\* record is determined by the calls on its own slot, whatever the order in
\* which calls on different slots were made: every step that touches a
\* slot's record or history leaves the record equal to the one its own
\* history gives.
C12_IndependentAgents ==
    [][/\ \A other \in Slots \ {call'.slot} : agents'[other] = agents[other]
       /\ (call'.op = "register_agent" =>
             \A slot \in Slots : agents[slot].exists => agents'[slot] = agents[slot])
       /\ \A slot \in Slots :
            (/\ agents'[slot].exists
             /\ \/ agents'[slot] # agents[slot]
                \/ registration'[slot] # registration[slot]
                \/ committed'[slot] # committed[slot])
            => agents'[slot] = RecordOf(registration'[slot], committed'[slot])]_vars

\* C12 witness: both records exist, each with a delta of its own, registered
\* by the same key.
C12_Witness ==
    /\ agents["agentA"].exists
    /\ agents["agentB"].exists
    /\ agents["agentA"].authority = agents["agentB"].authority
    /\ agents["agentA"].reputation_score = FromInt(9999)
    /\ agents["agentB"].reputation_score = FromInt(0)
    /\ Len(committed["agentA"]) = 1
    /\ Len(committed["agentB"]) = 1

\* C13: a slot only moves from Unregistered to Active, by a successful
\* register_agent; a record that exists exists after every step, and
\* record_reputation changes nothing of a record but reputation_score and
\* last_event.
C13_Lifecycle ==
    [][\A slot \in Slots :
         /\ agents[slot].exists =>
              /\ agents'[slot].exists
              /\ agents'[slot].authority = agents[slot].authority
              /\ agents'[slot].metadata = agents[slot].metadata
         /\ (~agents[slot].exists /\ agents'[slot].exists) =>
              (/\ call'.op = "register_agent"
               /\ call'.slot = slot
               /\ call'.result = "Ok")]_vars

\* C13 witness: a record with non-zero metadata that has taken two deltas.
C13_Witness ==
    /\ agents["agentA"].exists
    /\ agents["agentA"].metadata = [capabilities_uri |-> 1, disclosure |-> 1]
    /\ Len(committed["agentA"]) = 2
    /\ call.op = "record_reputation"
    /\ call.result = "Ok"

\* C14: a record_reputation call on a slot that holds no record fails with
\* NotFound, creates no record and changes no existing record.
C14_MissingRecord ==
    [][(call'.op = "record_reputation" /\ ~agents[call'.slot].exists)
       => (call'.result = "NotFound" /\ agents' = agents)]_vars

\* C14 witness: a signed call on an empty slot was refused while the other
\* slot holds a record with a score.
C14_Witness ==
    /\ call.op = "record_reputation"
    /\ call.signed
    /\ call.result = "NotFound"
    /\ ~agents[call.slot].exists
    /\ \E other \in Slots \ {call.slot} :
          agents[other].exists /\ agents[other].reputation_score = FromInt(9999)

\* C15: after registration the score is 0; after the authority's delta
\* {300, R1} it is 300 with last_event that delta; after {-50, R2} it is 250
\* with last_event that delta; and a delta then submitted by another caller
\* is rejected, the score staying 250 and last_event the second delta.
C15_EndToEnd ==
    [][/\ (agents'["agentA"].exists /\ committed'["agentA"] = <<>>)
            => /\ agents'["agentA"].reputation_score = FromInt(0)
               /\ agents'["agentA"].last_event = ZeroDelta
       /\ committed'["agentA"] = <<Delta1>>
            => /\ agents'["agentA"].reputation_score = FromInt(300)
               /\ agents'["agentA"].last_event = Delta1
       /\ committed'["agentA"] = <<Delta1, Delta2>>
            => /\ agents'["agentA"].reputation_score = FromInt(250)
               /\ agents'["agentA"].last_event = Delta2
       /\ (/\ committed["agentA"] = <<Delta1, Delta2>>
           /\ call'.op = "record_reputation"
           /\ call'.caller # agents["agentA"].authority)
            => /\ call'.result = "Unauthorized"
               /\ agents' = agents]_vars

\* C15 witness: the end of the trace, on a record registered with the
\* non-zero metadata: another caller's signed delta was just rejected.
C15_Witness ==
    /\ agents["agentA"].exists
    /\ agents["agentA"].metadata = [capabilities_uri |-> 1, disclosure |-> 1]
    /\ committed["agentA"] = <<Delta1, Delta2>>
    /\ call.op = "record_reputation"
    /\ call.signed
    /\ call.caller # agents["agentA"].authority
    /\ call.result = "Unauthorized"
    /\ agents["agentA"].reputation_score = FromInt(250)
    /\ agents["agentA"].last_event = Delta2

\* C16: the metadata of every record is, in every reachable state, the
\* metadata passed to the register_agent call that created it.
C16_MetadataImmutable ==
    \A slot \in Slots :
        agents[slot].exists => agents[slot].metadata = registration[slot].metadata

\* C16 witness: a record created with the non-zero metadata that has taken
\* two deltas.
C16_Witness ==
    \E slot \in Slots :
        /\ agents[slot].exists
        /\ registration[slot].metadata = [capabilities_uri |-> 1, disclosure |-> 1]
        /\ Len(committed[slot]) = 2

\* C17: a record_reputation call that names the record's stored authority
\* but is not signed by it fails and leaves the record as it was.
C17_SignatureRequired ==
    [][(/\ call'.op = "record_reputation"
        /\ agents[call'.slot].exists
        /\ call'.caller = agents[call'.slot].authority
        /\ ~call'.signed)
       => (call'.result = "Unauthorized" /\ agents' = agents)]_vars

\* C17 witness: an unsigned call naming the authority was rejected on a
\* record that holds a score.
C17_Witness ==
    /\ call.op = "record_reputation"
    /\ ~call.signed
    /\ agents[call.slot].exists
    /\ call.caller = agents[call.slot].authority
    /\ call.result = "Unauthorized"
    /\ agents[call.slot].reputation_score = FromInt(300)

\* C18: a step in which the reputation_score or the last_event of an
\* existing record differs is a successful record_reputation call on that
\* record, signed by its authority; so a record that has taken no such call
\* holds score 0 and the zero delta.
C18_OnlyAuthorityMovesScore ==
    [][/\ \A slot \in Slots :
            (/\ agents[slot].exists
             /\ \/ agents'[slot].reputation_score # agents[slot].reputation_score
                \/ agents'[slot].last_event # agents[slot].last_event)
            => (/\ call'.op = "record_reputation"
                /\ call'.slot = slot
                /\ call'.result = "Ok"
                /\ call'.signed
                /\ call'.caller = agents[slot].authority)
       /\ \A slot \in Slots :
            (agents'[slot].exists /\ committed'[slot] = <<>>)
            => (/\ agents'[slot].reputation_score = FromInt(0)
                /\ agents'[slot].last_event = ZeroDelta)]_vars

\* C18 witness: the authority of one record has just moved its score, and
\* the other record, which took only rejected calls, is still at zero.
C18_Witness ==
    /\ call.op = "record_reputation"
    /\ call.result = "Ok"
    /\ agents[call.slot].reputation_score = FromInt(9999)
    /\ \E other \in Slots \ {call.slot} :
          /\ agents[other].exists
          /\ agents[other].authority # call.caller
          /\ committed[other] = <<>>
          /\ agents[other].reputation_score = FromInt(0)

\* C19: a successful record_reputation call with score_change >= 0 never
\* lowers reputation_score, and one with score_change <= 0 never raises it.
C19_MonotoneInSign ==
    [][Recorded =>
         /\ I64Le(FromInt(0), RecordedDelta.score_change)
              => I64Le(agents[call'.slot].reputation_score,
                       agents'[call'.slot].reputation_score)
         /\ I64Le(RecordedDelta.score_change, FromInt(0))
              => I64Le(agents'[call'.slot].reputation_score,
                       agents[call'.slot].reputation_score)]_vars

\* A delta that can keep a score inside [0, 10000].
SmallDelta(d) == I64Le(FromInt(-MAX_SCORE), d) /\ I64Le(d, FromInt(MAX_SCORE))

\* Every running total of the integer s plus the deltas of seq, in order,
\* is within [0, 10000].
RECURSIVE StaysInRange(_, _)
StaysInRange(s, seq) ==
    \/ seq = <<>>
    \/ /\ SmallDelta(seq[1].score_change)
       /\ s + Val(seq[1].score_change) \in MIN_SCORE .. MAX_SCORE
       /\ StaysInRange(s + Val(seq[1].score_change), Tail(seq))

\* The integer sum of the score_change values of seq (all of them small).
RECURSIVE SumOf(_)
SumOf(seq) ==
    IF seq = <<>> THEN 0 ELSE Val(seq[1].score_change) + SumOf(Tail(seq))

\* The score of a record that holds score s after the deltas of seq, applied
\* one at a time in order.
RECURSIVE ScoreFrom(_, _)
ScoreFrom(s, seq) ==
    IF seq = <<>> THEN s
    ELSE ScoreFrom(NewScore(s, seq[1].score_change), Tail(seq))

\* The orderings of a sequence of n deltas.
Orderings(n) ==
    {p \in [1 .. n -> 1 .. n] : \A i, j \in 1 .. n : p[i] = p[j] => i = j}

Reordered(seq, p) == [i \in 1 .. Len(seq) |-> seq[p[i]]]

\* C20: for the deltas a record took after holding score s0: every ordering
\* of them whose running totals from s0 stay within [0, 10000] ends at
\* s0 plus their sum, and so does the record when the order they were
\* applied in is such an ordering.
C20_ExactAccumulation ==
    \A slot \in Slots :
      \A k \in 0 .. Len(committed[slot]) :
        LET s0   == ScoreAfter(SubSeq(committed[slot], 1, k))
            rest == SubSeq(committed[slot], k + 1, Len(committed[slot]))
        IN  /\ \A p \in Orderings(Len(rest)) :
                 StaysInRange(Val(s0), Reordered(rest, p))
                 => ScoreFrom(s0, Reordered(rest, p)) = FromInt(Val(s0) + SumOf(rest))
            /\ (agents[slot].exists /\ StaysInRange(Val(s0), rest))
                 => agents[slot].reputation_score = FromInt(Val(s0) + SumOf(rest))

\* C20 witness: +300 and +5000, whose two orderings both stay in range,
\* accumulated to 5300.
C20_Witness ==
    /\ agents["agentA"].exists
    /\ committed["agentA"] = <<Delta1, Delta3>>
    /\ StaysInRange(0, <<Delta3, Delta1>>)
    /\ agents["agentA"].reputation_score = FromInt(5300)

====
